---- MODULE Spec2Model ----
(***************************************************************************)
(* A model of mcp_rebuild (src/runtime/recompile_mods.py): the build run   *)
(* (API phase, main build loop, final report), project discovery, token    *)
(* rendering, packaging, patch resolution, staging and output naming.      *)
(***************************************************************************)
EXTENDS Integers, Sequences, FiniteSets, TLC

(***************************************************************************)
(* Bounds of the model.                                                    *)
(***************************************************************************)
\* The largest number of buildable projects of one run.
MaxProjects == 2
\* The largest number of directories under (and with) the walk's root.
MaxDirs == 4
\* The largest number of per-file edit scripts of one patch document.
MaxItems == 2
\* The largest length of a rendered text, in atoms.
MaxText == 5

(***************************************************************************)
(* Program constants.                                                      *)
(***************************************************************************)
\* CLIENT, SERVER, FORGE = range(3)
CLIENT == 0
SERVER == 1
FORGE == 2

\* sys.argv[0]: the name the script was invoked by.
ScriptName == "recompile_mods.py"
\* The names of the projects in walk order (the third project carries the
\* script's own name), and the names a command line or a conf/DEPENDENCIES
\* may give.
NameOf(i) ==
    IF i = 1 THEN "Foo" ELSE IF i = 2 THEN "Bar" ELSE ScriptName
\* The directory the API-only units compile into, os.path.join(TEMP, "lib").
api_dir == "temp/mods/lib"
\* os.path.join(TEMP, "compile_temp"), the staging directory of every unit.
compile_temp == "temp/mods/compile_temp"
\* The host libraries found in LIB, ":".join(libraries).
libraries == <<"lib/host.jar">>
\* MCP_BIN_CLIENT and MCP_BIN_SERVER
MCP_BIN_CLIENT == "bin/minecraft"
MCP_BIN_SERVER == "bin/minecraft_server"
\* TEMP = relative("temp/mods")
TEMP == "temp/mods"

(***************************************************************************)
(* State of the build run.                                                 *)
(***************************************************************************)
VARIABLES
    projects,           \* the buildable sequence collect_projects filled
    argv,               \* sys.argv
    FORGE_INSTALLED,    \* "FML" found in runtime/commands.py
    phase,              \* "api", "main", "report", "exited", "crashed", "idle"
    pi,                 \* index of the loop's current project
    si,                 \* index of the loop's current side
    step,               \* position inside a main-loop unit
    library_classpath,  \* the sequence library_classpath is the ":"-join of
    api_count,          \* api_count
    any_created,        \* any_created of the current project
    warnings,           \* warnings: project -> list of (side, warning)
    errors,             \* errors: project -> list of (side, error)
    exit_code,          \* the process exit status, -1 while running
    started,            \* history: the units begun so far
    finished,           \* history: the units that returned or were caught
    ran,                \* history: the (phase, stage) pairs run so far
    temp_files,         \* compile_temp: the units whose staged files it holds
    current,            \* history: the unit begun last, its stages in order
    javac,              \* history: the compiler command issued last
    count,              \* count: the projects the summary reports as successful
    counted,            \* history: the projects count was incremented for
    completed           \* history: the projects with a unit that ran every stage without failure

(***************************************************************************)
(* State of project discovery (Project.collect_projects).                  *)
(***************************************************************************)
VARIABLES
    dirs,               \* the tree: directory -> parent, files, conf files
    walk,               \* the directories os.walk has still to yield
    visited,            \* history: the directories os.walk yielded
    constructed,        \* history: the directories Project(dir) was called on
    found               \* the list collect_projects appends to

buildVars == <<projects, argv, FORGE_INSTALLED, phase, pi, si, step,
               library_classpath, api_count, any_created, warnings, errors,
               exit_code, started, finished, ran, temp_files, current, javac,
               count, counted, completed>>

countVars == <<count, counted, completed>>

discVars == <<dirs, walk, visited, constructed, found>>

(***************************************************************************)
(* State of one call of Project.package.                                   *)
(***************************************************************************)
VARIABLES
    layout,             \* the project: hide_source and what its directories hold
    pkg_side,           \* the side argument
    pkg_pc,             \* position in package, or "done", "raised", "idle"
    archive,            \* the entries of the archive, in the order written
    created,            \* created
    cwd                 \* the process working directory

pkgVars == <<layout, pkg_side, pkg_pc, archive, created>>

(***************************************************************************)
(* State of one call of Project.apply_patch.                               *)
(***************************************************************************)
VARIABLES
    patch_name,         \* the patch document's name, shortened
    patchset,           \* patchset.items: the (source, target) of each edit script
    patch_side,         \* the side argument
    mcp_files,          \* source root -> the relative paths that exist in it
    staging,            \* output_root: its directories and files
    copies,             \* history: the (root, path) of every shutil.copy2
    tried,               \* history: per edit script, the (root, path) found to exist and those copied
    resolved,           \* history: patch_target of each edit script done
    patch_warnings,     \* the targets add_warning was called with
    applied,            \* whether patchset.apply was called
    patch_pc,           \* "parse", the index of the next edit script, "apply", "done", "raised", "idle"
    patch_raised        \* the exception that left apply_patch, "" if none

patchVars == <<patch_name, patchset, patch_side, mcp_files, staging, copies,
               tried, resolved, patch_warnings, applied, patch_pc, patch_raised>>

(***************************************************************************)
(* State of one call of Project.replace_conf.                              *)
(***************************************************************************)
VARIABLES
    conf_dir,           \* the files of conf/: key -> raw contents
    filename,           \* the shortened name of the file, its text
    contents,           \* the contents of the file, its text
    rendered            \* the outcome of replace_conf

renderVars == <<conf_dir, filename, contents, rendered>>

(***************************************************************************)
(* State of the staging of one call of Project.compile.                    *)
(***************************************************************************)
VARIABLES
    stage_api,          \* the api argument
    api_patterns,       \* self.api
    java_files,         \* the .java files of the source directories, shortened
    patch_files,        \* the patch documents still to apply, by the file they patch
    staged,             \* the files staged into temp_dir
    compiler_files,     \* source_files: the files the compiler is given
    stage_pc            \* "sources", "patches", "javac", "raised", "idle"

stageVars == <<stage_api, api_patterns, java_files, patch_files, staged,
               compiler_files, stage_pc>>

(***************************************************************************)
(* State of the naming of the outputs of a run's units.                    *)
(***************************************************************************)
VARIABLES
    out_projects,       \* the projects: the files of conf/ and what they yield
    out_sides,          \* sides
    outputs             \* unit -> its package file and its compile_dir

outVars == <<out_projects, out_sides, outputs>>

vars == <<buildVars, discVars, pkgVars, patchVars, renderVars, cwd,
          stageVars, outVars>>

\* sides = [FORGE] if FORGE_INSTALLED else [CLIENT, SERVER]
sides == IF FORGE_INSTALLED THEN <<FORGE>> ELSE <<CLIENT, SERVER>>

\* projects_dict[project.name] = project: the last project of a name wins.
\* 0 stands for a name that is no key of the dictionary.
projects_dict(name) ==
    LET hits == {i \in 1..Len(projects) : projects[i].name = name}
    IN IF hits = {} THEN 0 ELSE CHOOSE i \in hits : \A j \in hits : j <= i

\* defaultdict(lambda: [])[project].append(entry)
Appended(dict, project, entry) ==
    IF project \in DOMAIN dict
    THEN [dict EXCEPT ![project] = Append(@, entry)]
    ELSE [k \in DOMAIN dict \cup {project} |->
            IF k = project THEN <<entry>> ELSE dict[k]]

\* warnings[project].append((side, warning))
add_warning(dict, project, side, warning) ==
    Appended(dict, project, [side |-> side, message |-> warning])

\* errors[project].append((side, error, sys.exc_info()[2]))
add_error(dict, project, side, error) ==
    Appended(dict, project, [side |-> side, message |-> error])

\* The condition of the API loop inverted.
HasApi_Inverted(project) == ~project.api

\* if project.api: a project that declares at least one API pattern
HasApi(project) == project.api

\* The filter taken to start at sys.argv[2].
Requested_OffByOne(project, args) ==
    ~(Len(args) > 2 /\ ~(\E k \in 1..Len(args) : args[k] = project.name))

\* not (len(sys.argv) > 1 and not project.name in sys.argv)
Requested(project, args) ==
    ~(Len(args) > 1 /\ ~(\E k \in 1..Len(args) : args[k] = project.name))

RECURSIVE AddAll(_, _, _, _)
\* A sequence of warnings appended to warnings[project] in order.
AddAll(dict, project, side, ws) ==
    IF ws = <<>> THEN dict
    ELSE AddAll(add_warning(dict, project, side, Head(ws)), project, side, Tail(ws))

RECURSIVE DepWarnings(_)
\* for dep in self.dependencies: a dependency that is no key of
\* projects_dict is a warning, and the loop continues.
DepWarnings(deps) ==
    IF deps = <<>> THEN <<>>
    ELSE (IF projects_dict(Head(deps)) = 0
          THEN <<[kind |-> "missing_dependency", name |-> Head(deps)]>>
          ELSE <<>>) \o DepWarnings(Tail(deps))

\* Project.get_source_dirs(side) of the project of index i.
get_source_dirs(i, side) ==
    <<[project |-> i, dir |-> "src/common"]>> \o
    (IF side = CLIENT THEN <<[project |-> i, dir |-> "src/client"]>>
     ELSE IF side = SERVER THEN <<[project |-> i, dir |-> "src/server"]>>
     ELSE <<>>)

RECURSIVE DepSourceDirs(_, _)
\* for dep in self.dependencies: source_dirs += project.get_source_dirs(side)
\* for every dependency that is a key of projects_dict.
DepSourceDirs(deps, side) ==
    IF deps = <<>> THEN <<>>
    ELSE (IF projects_dict(Head(deps)) = 0 THEN <<>>
          ELSE get_source_dirs(projects_dict(Head(deps)), side))
         \o DepSourceDirs(Tail(deps), side)

\* A dependency loop that stops at the first missing dependency.
source_dirs_StopAtMissing(temp_dir, deps, side) ==
    <<[project |-> 0, dir |-> temp_dir]>> \o
    (IF \E k \in 1..Len(deps) : projects_dict(deps[k]) = 0
     THEN <<>> ELSE DepSourceDirs(deps, side))

\* source_dirs = [temp_dir], then the source directories of the
\* dependencies found.
source_dirs(temp_dir, deps, side) ==
    <<[project |-> 0, dir |-> temp_dir]>> \o DepSourceDirs(deps, side)

\* A classpath that always ends with the API output directory.
classpath_WithApi(side, libs) ==
    <<IF side = SERVER THEN MCP_BIN_SERVER ELSE MCP_BIN_CLIENT>>
        \o libraries \o <<api_dir>>

\* classpath = MCP_BIN_CLIENT (CLIENT, FORGE) or MCP_BIN_SERVER, then
\* library_classpath.
classpath(side, libs) ==
    <<IF side = SERVER THEN MCP_BIN_SERVER ELSE MCP_BIN_CLIENT>> \o libs

\* No compiler command.
NoCommand == [sourcepath |-> <<>>, classpath |-> <<>>, out_dir |-> <<>>]

\* Project.compile: staging (create_or_clean, replace_conf, apply_patch),
\* the dependency loop, then javac through call_or_die. stage_ok is the
\* outcome of staging (replace_conf and apply_patch raise CompileFailed),
\* javac_exit the compiler's exit status. The result names the stages run,
\* the stage that failed, the warnings added in order, the exception raised
\* ("" when compile returns) and the compiler command.
compile(project, side, out_dir, temp_dir, libs, stage_ok, javac_exit) ==
    IF ~stage_ok
    THEN [stages |-> <<"stage">>, failed |-> "stage", warns |-> <<>>,
          raised |-> "CompileFailed", command |-> NoCommand]
    ELSE [stages  |-> <<"stage", "compile">>,
          failed  |-> IF javac_exit # 0 THEN "compile" ELSE "",
          warns   |-> DepWarnings(project.dependencies),
          raised  |-> IF javac_exit # 0 THEN "CompileFailed" ELSE "",
          command |-> [sourcepath |-> source_dirs(temp_dir, project.dependencies, side),
                       classpath  |-> classpath(side, libs),
                       out_dir    |-> out_dir]]

\* A create_or_clean that keeps what the directory holds.
create_or_clean_Keep(held) == held

\* create_or_clean(dir): shutil.rmtree, then os.makedirs. What the
\* directory holds afterwards.
create_or_clean(held) == {}

\* os.path.join(dir, name), for a name given as the sequence of its parts.
join(dir, name) == <<dir, "/">> \o name

\* compile_dir = os.path.join(TEMP, project.name), with "_server" or
\* "_universal" appended for those sides. A name is the sequence of its
\* parts, so that names put together from different parts can be equal.
compile_dir(name, side) ==
    join(TEMP, name) \o
    (IF side = SERVER THEN <<"_server">>
     ELSE IF side = FORGE THEN <<"_universal">> ELSE <<>>)

\* The exit status counting every project with a diagnostic of either kind.
ExitStatus_WithWarnings(errs) ==
    Cardinality(DOMAIN errs \cup DOMAIN warnings) % 256

\* sys.exit(len(errors)) when errors is non-empty, else the script ends and
\* the status is 0. The operating system keeps the low 8 bits of the status.
ExitStatus(errs) ==
    IF DOMAIN errs # {} THEN Cardinality(DOMAIN errs) % 256 ELSE 0

Unit(ph, p, s) == [phase |-> ph, project |-> p, side |-> s]

\* No unit has begun.
NoUnit == [unit |-> Unit("none", 0, 0), stages |-> <<>>, failed |-> "",
           created |-> FALSE]

\* The projects Init draws from: a name, whether conf/API lists a pattern,
\* and the names conf/DEPENDENCIES lists ("Missing" names no project).
ProjectRecords(i) ==
    [name : {NameOf(i)}, api : BOOLEAN,
     dependencies : {<<>>, <<"Bar", "Missing", "Foo">>}]

\* The buildable sequences of n projects.
ProjectLists(n) ==
    {ps \in [1..n -> UNION {ProjectRecords(i) : i \in 1..n}] :
        \A i \in 1..n : ps[i] \in ProjectRecords(i)}

BuildInit ==
    /\ projects \in UNION {ProjectLists(n) : n \in 0..MaxProjects}
    /\ argv \in {<<ScriptName>>, <<ScriptName, "Foo">>, <<ScriptName, "Bar">>}
    /\ FORGE_INSTALLED \in BOOLEAN
    /\ phase = "api"
    /\ pi = 1
    /\ si = 1
    /\ step = "compile"
    /\ library_classpath = libraries
    /\ api_count = 0
    /\ any_created = FALSE
    /\ warnings = <<>>
    /\ errors = <<>>
    /\ exit_code = -1
    /\ started = {}
    /\ finished = {}
    /\ ran = {}
    /\ temp_files = {}
    /\ current = NoUnit
    /\ javac = [unit |-> Unit("none", 0, 0), command |-> NoCommand, staged |-> {}]
    /\ count = 0
    /\ counted = {}
    /\ completed = {}

\* The loop variables after the unit (pi, si): the next side of the same
\* project, or the first side of the next project.
NextUnit ==
    /\ finished' = finished \cup {Unit(phase, pi, sides[si])}
    /\ step' = "compile"
    /\ IF si < Len(sides)
       THEN /\ si' = si + 1
            /\ pi' = pi
       ELSE /\ si' = 1
            /\ pi' = pi + 1

\* API phase, a project with no API pattern: the loop moves on.
ApiSkipProject ==
    /\ UNCHANGED countVars
    /\ phase = "api"
    /\ pi <= Len(projects)
    /\ ~HasApi(projects[pi])
    /\ pi' = pi + 1
    /\ UNCHANGED <<projects, argv, FORGE_INSTALLED, phase, si, step,
                   library_classpath, api_count, any_created, warnings,
                   errors, exit_code, started, finished, ran, temp_files,
                   current, javac, cwd>>

\* What one call of project.compile leaves in the histories and in
\* compile_temp: the directory is cleaned, then the unit stages its files,
\* and the compiler, when reached, sees what the directory holds.
Compiled(unit, r) ==
    /\ started' = started \cup {unit}
    /\ ran' = ran \cup {[phase |-> phase, stage |-> r.stages[k]] :
                           k \in 1..Len(r.stages)}
    /\ warnings' = AddAll(warnings, unit.project, unit.side, r.warns)
    /\ temp_files' = create_or_clean(temp_files) \cup {unit}
    /\ current' = [unit |-> unit, stages |-> r.stages, failed |-> r.failed,
                   created |-> FALSE]
    /\ javac' = IF r.failed = "stage" THEN javac
                ELSE [unit |-> unit, command |-> r.command,
                      staged |-> temp_files']

\* API phase, one unit: project.compile(..., api_dir, compile_temp,
\* library_classpath, api=True) outside any try: an exception ends the
\* process with a traceback and status 1.
ApiCompile ==
    /\ UNCHANGED countVars
    /\ phase = "api"
    /\ pi <= Len(projects)
    /\ HasApi(projects[pi])
    /\ \E stage_ok \in BOOLEAN, javac_exit \in {0, 1} :
         LET r == compile(projects[pi], sides[si], <<api_dir>>, compile_temp,
                          library_classpath, stage_ok, javac_exit)
         IN /\ Compiled(Unit("api", pi, sides[si]), r)
            /\ IF r.raised = ""
               THEN /\ NextUnit
                    /\ api_count' = api_count + 1
                    /\ UNCHANGED <<phase, exit_code>>
               ELSE /\ phase' = "crashed"
                    /\ exit_code' = 1
                    /\ UNCHANGED <<pi, si, step, finished, api_count>>
    /\ UNCHANGED <<projects, argv, FORGE_INSTALLED, library_classpath,
                   any_created, errors, cwd>>

\* After the API loop: library_classpath += ":" + api_dir, then the main loop.
ApiEnd ==
    /\ UNCHANGED countVars
    /\ phase = "api"
    /\ pi > Len(projects)
    /\ library_classpath' = Append(library_classpath, api_dir)
    /\ phase' = "main"
    /\ pi' = 1
    /\ si' = 1
    /\ step' = "compile"
    /\ UNCHANGED <<projects, argv, FORGE_INSTALLED, api_count, any_created,
                   warnings, errors, exit_code, started, finished, ran,
                   temp_files, current, javac, cwd>>

\* Main loop, a project the command line did not ask for: continue.
MainSkipProject ==
    /\ UNCHANGED countVars
    /\ phase = "main"
    /\ pi <= Len(projects)
    /\ step = "compile"
    /\ si = 1
    /\ ~Requested(projects[pi], argv)
    /\ pi' = pi + 1
    /\ UNCHANGED <<projects, argv, FORGE_INSTALLED, phase, si, step,
                   library_classpath, api_count, any_created, warnings,
                   errors, exit_code, started, finished, ran, temp_files,
                   current, javac, cwd>>

\* After the last side of a project: if any_created: count += 1
Counted ==
    IF si = Len(sides) /\ any_created
    THEN /\ count' = count + 1
         /\ counted' = counted \cup {pi}
    ELSE UNCHANGED <<count, counted>>

\* A handler that records the error twice.
Caught_Twice(error) ==
    /\ errors' = add_error(add_error(errors, pi, sides[si], error),
                           pi, sides[si], error)
    /\ NextUnit
    /\ any_created' = IF si < Len(sides) THEN any_created ELSE FALSE
    /\ UNCHANGED completed
    /\ Counted

\* except Exception, e: add_error(project, side, e), then the next side.
\* any_created is reset where the next project begins.
Caught(error) ==
    /\ errors' = add_error(errors, pi, sides[si], error)
    /\ NextUnit
    /\ any_created' = IF si < Len(sides) THEN any_created ELSE FALSE
    /\ UNCHANGED completed
    /\ Counted

\* Main loop, one unit: create_or_clean(compile_dir) and project.compile.
MainCompile ==
    /\ phase = "main"
    /\ pi <= Len(projects)
    /\ step = "compile"
    /\ Requested(projects[pi], argv)
    /\ \E stage_ok \in BOOLEAN, javac_exit \in {0, 1} :
         LET r == compile(projects[pi], sides[si],
                          compile_dir(<<projects[pi].name>>, sides[si]),
                          compile_temp,
                          library_classpath, stage_ok, javac_exit)
         IN /\ Compiled(Unit("main", pi, sides[si]), r)
            /\ IF r.raised = ""
               THEN /\ step' = "package"
                    /\ UNCHANGED <<pi, si, finished, errors, any_created>>
                    /\ UNCHANGED countVars
               ELSE Caught(r.raised)
    /\ UNCHANGED <<projects, argv, FORGE_INSTALLED, phase, library_classpath,
                   api_count, exit_code, cwd>>

\* created = project.package(side, compile_dir). package returns with the
\* working directory BASE; an exception of zip leaves it in the directory
\* of the group being written.
MainPackage ==
    /\ phase = "main"
    /\ step = "package"
    /\ ran' = ran \cup {[phase |-> phase, stage |-> "package"]}
    /\ \E out \in {"created", "nothing", "raised"} :
         /\ current' = [current EXCEPT !.stages = Append(@, "package"),
                                        !.failed = IF out = "raised"
                                                   THEN "package" ELSE "",
                                        !.created = (out = "created")]
         /\ CASE out = "created" ->
                  /\ any_created' = TRUE
                  /\ step' = "obfuscate"
                  /\ cwd' = "BASE"
                  /\ UNCHANGED <<pi, si, finished, errors>>
                  /\ UNCHANGED countVars
             [] out = "nothing" ->
                  /\ NextUnit
                  /\ any_created' = IF si < Len(sides) THEN any_created ELSE FALSE
                  /\ cwd' = "BASE"
                  /\ UNCHANGED <<errors, completed>>
                  /\ Counted
             [] out = "raised" ->
                  /\ Caught("CompileFailed")
                  /\ cwd' = "common_resources"
    /\ UNCHANGED <<projects, argv, FORGE_INSTALLED, phase, library_classpath,
                   api_count, warnings, exit_code, started, temp_files, javac>>

\* A main loop that goes on to the next unit without obfuscating.
MainObfuscate_Skipped ==
    /\ phase = "main"
    /\ step = "obfuscate"
    /\ NextUnit
    /\ any_created' = IF si < Len(sides) THEN any_created ELSE FALSE
    /\ UNCHANGED completed
    /\ Counted
    /\ UNCHANGED <<projects, argv, FORGE_INSTALLED, phase, library_classpath,
                   api_count, warnings, errors, exit_code, started, ran,
                   temp_files, current, javac, cwd>>

\* if created: project.obfuscate(side, stored_inheritance)
MainObfuscate ==
    /\ phase = "main"
    /\ step = "obfuscate"
    /\ ran' = ran \cup {[phase |-> phase, stage |-> "obfuscate"]}
    /\ \E tool_exit \in {0, 1} :
         /\ current' = [current EXCEPT !.stages = Append(@, "obfuscate"),
                                        !.failed = IF tool_exit # 0
                                                   THEN "obfuscate" ELSE ""]
         /\ IF tool_exit = 0
            THEN /\ NextUnit
                 /\ any_created' = IF si < Len(sides) THEN any_created ELSE FALSE
                 /\ completed' = completed \cup {pi}
                 /\ Counted
                 /\ UNCHANGED errors
            ELSE Caught("ObfuscateFailed")
    /\ UNCHANGED <<projects, argv, FORGE_INSTALLED, phase, library_classpath,
                   api_count, warnings, exit_code, started, temp_files, javac,
                   cwd>>

\* After the main loop: the summary, the grouped report, and
\* sys.exit(len(errors)) when there are errors.
FinalReport ==
    /\ UNCHANGED countVars
    /\ phase = "main"
    /\ pi > Len(projects)
    /\ phase' = "exited"
    /\ exit_code' = ExitStatus(errors)
    /\ UNCHANGED <<projects, argv, FORGE_INSTALLED, pi, si, step,
                   library_classpath, api_count, any_created, warnings,
                   errors, started, finished, ran, temp_files, current,
                   javac, cwd>>

\* No discovery is under way.
DiscIdle ==
    /\ dirs = <<>>
    /\ walk = <<>>
    /\ visited = {}
    /\ constructed = {}
    /\ found = <<>>

\* No build run is under way.
BuildIdle ==
    /\ projects = <<>>
    /\ argv = <<ScriptName>>
    /\ FORGE_INSTALLED = FALSE
    /\ phase = "idle"
    /\ pi = 1
    /\ si = 1
    /\ step = "compile"
    /\ library_classpath = libraries
    /\ api_count = 0
    /\ any_created = FALSE
    /\ warnings = <<>>
    /\ errors = <<>>
    /\ exit_code = -1
    /\ started = {}
    /\ finished = {}
    /\ ran = {}
    /\ temp_files = {}
    /\ current = NoUnit
    /\ javac = [unit |-> Unit("none", 0, 0), command |-> NoCommand, staged |-> {}]
    /\ count = 0
    /\ counted = {}
    /\ completed = {}

\* No call of package is under way.
PkgIdle ==
    /\ layout = <<>>
    /\ pkg_side = CLIENT
    /\ pkg_pc = "idle"
    /\ archive = <<>>
    /\ created = FALSE
    /\ cwd = "BASE"

\* No call of apply_patch is under way.
PatchIdle ==
    /\ patch_name = ""
    /\ patchset = <<>>
    /\ patch_side = CLIENT
    /\ mcp_files = <<>>
    /\ staging = <<>>
    /\ copies = <<>>
    /\ tried = <<>>
    /\ resolved = <<>>
    /\ patch_warnings = <<>>
    /\ applied = FALSE
    /\ patch_pc = "idle"
    /\ patch_raised = ""

\* No staging is under way.
StageIdle ==
    /\ stage_api = FALSE
    /\ api_patterns = {}
    /\ java_files = {}
    /\ patch_files = {}
    /\ staged = {}
    /\ compiler_files = {}
    /\ stage_pc = "idle"

\* No outputs are being named.
OutIdle ==
    /\ out_projects = <<>>
    /\ out_sides = <<>>
    /\ outputs = {}

\* No call of replace_conf is under way.
RenderIdle ==
    /\ conf_dir = <<>>
    /\ filename = <<>>
    /\ contents = <<>>
    /\ rendered = [status |-> "idle"]

\* The state before the API phase loop.
Init ==
    BuildInit /\ DiscIdle /\ PkgIdle /\ PatchIdle /\ RenderIdle
      /\ StageIdle /\ OutIdle

\* One step of the build run.
Next ==
    \/ ApiSkipProject
         /\ UNCHANGED <<discVars, pkgVars, patchVars, renderVars, stageVars, outVars>>
    \/ ApiCompile
         /\ UNCHANGED <<discVars, pkgVars, patchVars, renderVars, stageVars, outVars>>
    \/ ApiEnd
         /\ UNCHANGED <<discVars, pkgVars, patchVars, renderVars, stageVars, outVars>>
    \/ MainSkipProject
         /\ UNCHANGED <<discVars, pkgVars, patchVars, renderVars, stageVars, outVars>>
    \/ MainCompile
         /\ UNCHANGED <<discVars, pkgVars, patchVars, renderVars, stageVars, outVars>>
    \/ MainPackage
         /\ UNCHANGED <<discVars, pkgVars, patchVars, renderVars, stageVars, outVars>>
    \/ MainObfuscate
         /\ UNCHANGED <<discVars, pkgVars, patchVars, renderVars, stageVars, outVars>>
    \/ FinalReport
         /\ UNCHANGED <<discVars, pkgVars, patchVars, renderVars, stageVars, outVars>>

Spec == Init /\ [][Next]_vars

(***************************************************************************)
(* Project discovery: Project.collect_projects over os.walk.               *)
(***************************************************************************)
\* What a directory of the model holds: its regular files among the marker
\* names, and the regular files of its conf/ subdirectory among the
\* disabling settings.
DirKinds ==
    {[files |-> {},                       conf |-> {}],
     [files |-> {"DISABLE"},              conf |-> {}],
     [files |-> {"DISABLED"},             conf |-> {}],
     [files |-> {"CATEGORY"},             conf |-> {}],
     [files |-> {"DISABLED", "CATEGORY"}, conf |-> {}],
     [files |-> {},                       conf |-> {"DISABLE"}],
     [files |-> {},                       conf |-> {"DISABLED"}],
     [files |-> {"CATEGORY"},             conf |-> {"DISABLED"}]}

\* The trees of n directories: directory 1 is the root (USER), and every
\* other directory lies in a directory of a smaller number.
Trees(n) ==
    {t \in [1..n -> [parent : 0..(n - 1), kind : DirKinds]] :
        /\ t[1].parent = 0
        /\ \A i \in 2..n : t[i].parent \in 1..(i - 1)}

RECURSIVE Ascending(_)
\* The members of a set of directories as a sequence, smallest first.
Ascending(ds) ==
    IF ds = {} THEN <<>>
    ELSE LET d == CHOOSE x \in ds : \A y \in ds : x <= y
         IN <<d>> \o Ascending(ds \ {d})

\* subdirs: the directories os.walk lists in dir.
subdirs(d) == Ascending({c \in DOMAIN dirs : dirs[c].parent = d})

\* Only the DISABLED marker file is looked for.
MarkerDisabled_OneName(files) == "DISABLED" \in files

\* A disabled marker that a CATEGORY file overrides.
MarkerDisabled_UnlessCategory(files) ==
    ("DISABLED" \in files \/ "DISABLE" \in files) /\ "CATEGORY" \notin files

\* if "DISABLED" in files or "DISABLE" in files
MarkerDisabled(files) == "DISABLED" \in files \/ "DISABLE" \in files

\* elif "CATEGORY" in files
IsCategory(files) == "CATEGORY" \in files

\* get_config(setting, data_type=bool): os.path.isfile(dir/conf/setting)
get_config_bool(conf, setting) == setting \in conf

\* Only conf/DISABLE disables a project.
ProjectDisabled_OneName(conf) == get_config_bool(conf, "DISABLE")

\* Project.__init__: self.disabled
ProjectDisabled(conf) ==
    get_config_bool(conf, "DISABLE") \/ get_config_bool(conf, "DISABLED")

DiscInit ==
    /\ dirs \in UNION {Trees(n) : n \in 1..MaxDirs}
    /\ walk = <<1>>
    /\ visited = {}
    /\ constructed = {}
    /\ found = <<>>

\* os.walk yields a directory with a DISABLED or DISABLE file: del subdirs[:]
WalkDisabled ==
    /\ walk # <<>>
    /\ MarkerDisabled(dirs[Head(walk)].kind.files)
    /\ visited' = visited \cup {Head(walk)}
    /\ walk' = Tail(walk)
    /\ UNCHANGED <<dirs, constructed, found>>

\* os.walk yields a directory with a CATEGORY file: the walk goes on into
\* its subdirectories, depth first.
WalkCategory ==
    /\ walk # <<>>
    /\ ~MarkerDisabled(dirs[Head(walk)].kind.files)
    /\ IsCategory(dirs[Head(walk)].kind.files)
    /\ visited' = visited \cup {Head(walk)}
    /\ walk' = subdirs(Head(walk)) \o Tail(walk)
    /\ UNCHANGED <<dirs, constructed, found>>

\* os.walk yields any other directory: Project(dir) is constructed, appended
\* unless project.disabled, and del subdirs[:]
WalkProject ==
    /\ walk # <<>>
    /\ ~MarkerDisabled(dirs[Head(walk)].kind.files)
    /\ ~IsCategory(dirs[Head(walk)].kind.files)
    /\ visited' = visited \cup {Head(walk)}
    /\ constructed' = constructed \cup {Head(walk)}
    /\ found' = IF ProjectDisabled(dirs[Head(walk)].kind.conf)
                THEN found
                ELSE Append(found, Head(walk))
    /\ walk' = Tail(walk)
    /\ UNCHANGED dirs

DiscNext ==
    \/ WalkDisabled
         /\ UNCHANGED <<buildVars, pkgVars, patchVars, renderVars, cwd, stageVars, outVars>>
    \/ WalkCategory
         /\ UNCHANGED <<buildVars, pkgVars, patchVars, renderVars, cwd, stageVars, outVars>>
    \/ WalkProject
         /\ UNCHANGED <<buildVars, pkgVars, patchVars, renderVars, cwd, stageVars, outVars>>

\* The state when collect_projects(USER, projects) is called.
InitDiscover ==
    DiscInit /\ BuildIdle /\ PkgIdle /\ PatchIdle /\ RenderIdle
      /\ StageIdle /\ OutIdle

\* Project.collect_projects(USER, projects)
SpecDiscover == InitDiscover /\ [][DiscNext]_vars

(***************************************************************************)
(* Properties of discovery.                                                *)
(***************************************************************************)
RECURSIVE Below(_, _)
\* Whether directory c lies below directory d, at any depth.
Below(c, d) ==
    /\ dirs[c].parent # 0
    /\ (dirs[c].parent = d \/ Below(dirs[c].parent, d))

\* The directories collect_projects has appended.
Buildable == {found[k] : k \in 1..Len(found)}

\* C6: a directory with a DISABLE or DISABLED marker file, or with a
\* conf/DISABLE or conf/DISABLED file, is never appended to the buildable
\* sequence, and no directory below a marker file is visited.
C6_DisabledNeverBuildable ==
    \A d \in DOMAIN dirs :
        /\ (dirs[d].kind.files \cap {"DISABLE", "DISABLED"} # {}
              \/ dirs[d].kind.conf \cap {"DISABLE", "DISABLED"} # {})
             => d \notin Buildable
        /\ dirs[d].kind.files \cap {"DISABLE", "DISABLED"} # {}
             => \A c \in DOMAIN dirs : Below(c, d) => c \notin visited

\* C6 witness: the walk is over; it met a directory with a marker file that
\* has a subdirectory, and constructed a project that its conf/ disables.
C6_Witness ==
    /\ walk = <<>>
    /\ \E d \in visited :
         /\ dirs[d].kind.files \cap {"DISABLE", "DISABLED"} # {}
         /\ \E c \in DOMAIN dirs : dirs[c].parent = d
    /\ \E d \in constructed : dirs[d].kind.conf # {}

(***************************************************************************)
(* Packaging: Project.package and Project.zip.                             *)
(***************************************************************************)
\* What a directory holds: "absent" (no such directory), "empty", "subdirs"
\* (only empty subdirectories: os.listdir is non-empty, os.walk finds no
\* file), "files" (a file), "token" (a file whose contents hold a conf
\* token that is not configured).
SourceContents == {"absent", "empty", "subdirs", "files"}
ResourceContents == {"absent", "empty", "subdirs", "files", "token"}
\* compile_dir exists by create_or_clean; javac may have written nothing.
ClassContents == {"empty", "files"}

\* The groups of package, in the order of its code.
Groups == <<"common_source", "source", "classes", "common_resources",
            "resources">>

\* The position of package after a group: the next group, or "return".
After(group) ==
    LET k == CHOOSE i \in 1..Len(Groups) : Groups[i] = group
    IN IF k < Len(Groups) THEN Groups[k + 1] ELSE "return"

\* os.path.isdir(d): the directory exists.
isdir(content) == content # "absent"

\* os.listdir(d) is non-empty.
listdir(content) == content \in {"subdirs", "files", "token"}

\* Project.zip(package, do_replace): os.walk(".") over the working
\* directory; every file is written under the group's name, through
\* replace_conf when do_replace. The entries added and the exception raised.
zip(group, content, do_replace) ==
    IF content = "token" /\ do_replace
    THEN [entries |-> <<>>, raised |-> "CompileFailed"]
    ELSE [entries |-> IF content \in {"files", "token"} THEN <<group>> ELSE <<>>,
          raised  |-> ""]

\* A package that tests no hide_source flag before the source groups.
Contributes_IgnoreHide(group, side) ==
    CASE group = "common_source" ->
           isdir(layout.common_source) /\ listdir(layout.common_source)
      [] group = "source" ->
           side # FORGE /\ isdir(layout.source) /\ listdir(layout.source)
      [] group = "classes" -> isdir(layout.classes) /\ listdir(layout.classes)
      [] group = "common_resources" -> isdir(layout.common_resources)
      [] group = "resources" -> side # FORGE /\ isdir(layout.resources)

\* The condition package tests before it changes directory and zips a group.
Contributes(group, side) ==
    CASE group = "common_source" ->
           ~layout.hide_source /\ isdir(layout.common_source)
                               /\ listdir(layout.common_source)
      [] group = "source" ->
           ~layout.hide_source /\ side # FORGE /\ isdir(layout.source)
                               /\ listdir(layout.source)
      [] group = "classes" -> isdir(layout.classes) /\ listdir(layout.classes)
      [] group = "common_resources" -> isdir(layout.common_resources)
      [] group = "resources" -> side # FORGE /\ isdir(layout.resources)

\* do_replace of the group's zip call.
DoReplace(group) == group \in {"common_resources", "resources"}

PkgInit ==
    /\ layout \in [hide_source : BOOLEAN,
                    common_source : SourceContents,
                    source : SourceContents,
                    classes : ClassContents,
                    common_resources : ResourceContents,
                    resources : ResourceContents]
    /\ pkg_side \in {CLIENT, SERVER, FORGE}
    /\ pkg_pc = Groups[1]
    /\ archive = <<>>
    /\ created = FALSE
    /\ cwd = "BASE"

\* One group of package: skipped, or os.chdir(dir); self.zip(package);
\* created = True. An exception of zip leaves package at once.
PackageGroup ==
    /\ pkg_pc \in {Groups[k] : k \in 1..Len(Groups)}
    /\ LET group == pkg_pc
       IN IF ~Contributes(group, pkg_side)
          THEN /\ pkg_pc' = After(group)
               /\ UNCHANGED <<archive, created, cwd>>
          ELSE LET z == zip(group, layout[group], DoReplace(group))
               IN /\ cwd' = group
                  /\ archive' = archive \o z.entries
                  /\ IF z.raised = ""
                     THEN /\ created' = TRUE
                          /\ pkg_pc' = After(group)
                     ELSE /\ pkg_pc' = "raised"
                          /\ UNCHANGED created
    /\ UNCHANGED <<layout, pkg_side>>

\* os.chdir(BASE); return created
PackageReturn ==
    /\ pkg_pc = "return"
    /\ cwd' = "BASE"
    /\ pkg_pc' = "done"
    /\ UNCHANGED <<layout, pkg_side, archive, created>>

PkgNext ==
    \/ PackageGroup
         /\ UNCHANGED <<buildVars, discVars, patchVars, renderVars, stageVars, outVars>>
    \/ PackageReturn
         /\ UNCHANGED <<buildVars, discVars, patchVars, renderVars, stageVars, outVars>>

\* The state when package(side, in_dir) is called.
InitPackage ==
    PkgInit /\ BuildIdle /\ DiscIdle /\ PatchIdle /\ RenderIdle
      /\ StageIdle /\ OutIdle

\* Project.package(side, in_dir)
SpecPackage == InitPackage /\ [][PkgNext]_vars

(***************************************************************************)
(* Properties of packaging.                                                *)
(***************************************************************************)
\* C7 (as claimed): package returns created = true exactly when a group
\* added at least one entry to the archive.
C7_CreatedIffEntryAdded ==
    pkg_pc = "done" => (created <=> Len(archive) > 0)

(***************************************************************************)
(* Patch resolution: Project.apply_patch.                                  *)
(***************************************************************************)
\* MCP_SRC, indexed by side: the FORGE root is the CLIENT root.
MCP_SRC == <<"src/minecraft", "src/minecraft_server", "src/minecraft">>

\* The relative paths of the model, normalised.
Paths == {"A.java", "net/B.java", "net/C.java"}

\* The paths an edit script may name: one of them is not normalised.
RawPaths == {"A.java", "net/B.java", "./net/C.java"}

\* The shortened names of the patch documents of the model.
PatchNames == {"fix.patch", "A.java.patch", "net/B.java.diff"}

\* os.path.normpath
normpath(path) == IF path = "./net/C.java" THEN "net/C.java" ELSE path

\* os.path.dirname of a path below output_root ("" is output_root itself).
dirname(path) == IF path = "A.java" THEN "" ELSE "net"

\* target_file: the patch name up to and with its first ".java", or None.
target_file(name) ==
    CASE name = "A.java.patch" -> "A.java"
      [] name = "net/B.java.diff" -> "net/B.java"
      [] OTHER -> "None"

\* src, then fallback_src when side == FORGE.
source_roots(side) ==
    <<MCP_SRC[side + 1]>> \o
    (IF side = FORGE THEN <<MCP_SRC[CLIENT + 1]>> ELSE <<>>)

RECURSIVE copy_found(_, _, _)
\* for source_file in source_files: if os.path.exists(source_file), set
\* patch_target, os.makedirs the target's directory (an OSError when it is
\* there already) and shutil.copy2. The loop has no break.
copy_found(st, target, roots) ==
    IF roots = <<>> \/ st.raised # "" THEN st
    ELSE IF target \notin mcp_files[Head(roots)]
    THEN copy_found(st, target, Tail(roots))
    ELSE IF dirname(target) \in st.dirs
    THEN [st EXCEPT !.patch_target = target, !.raised = "OSError",
                    !.found = Append(@, [root |-> Head(roots), path |-> target])]
    ELSE copy_found([st EXCEPT !.patch_target = target,
                               !.dirs = @ \cup {dirname(target)},
                               !.files = @ \cup {target},
                               !.found = Append(@, [root |-> Head(roots),
                                                    path |-> target]),
                               !.copied = Append(@, [root |-> Head(roots),
                                                     path |-> target]),
                               !.copies = Append(@, [root |-> Head(roots),
                                                     path |-> target])],
                    target, Tail(roots))

RECURSIVE try_targets(_, _, _)
\* for possible_target in [patch.source, patch.target, target_file]
try_targets(st, possible, roots) ==
    IF possible = <<>> \/ st.raised # "" THEN st
    ELSE IF Head(possible) = "None"
    THEN try_targets(st, Tail(possible), roots)
    ELSE LET st1 == copy_found(st, normpath(Head(possible)), roots)
         IN IF st1.raised # "" \/ st1.patch_target # "None" THEN st1
            ELSE try_targets([st1 EXCEPT !.warned = Append(@, normpath(Head(possible)))],
                             Tail(possible), roots)

\* The body of "for patch in patchset.items" for one edit script: the
\* staging tree, the copies and warnings after it, patch_target and the
\* exception raised.
resolve(patch, hint, side) ==
    LET st0 == [dirs |-> staging.dirs, files |-> staging.files,
                copies |-> copies, warned |-> patch_warnings,
                found |-> <<>>, copied |-> <<>>,
                patch_target |-> "None", raised |-> ""]
        st == try_targets(st0, <<patch.source, patch.target, hint>>,
                          source_roots(side))
    IN IF st.raised # "" THEN st
       ELSE IF st.patch_target = "None"
       THEN [st EXCEPT !.raised = "CompileFailed: no file to patch"]
       ELSE IF hint # "None" /\ st.patch_target # hint
       THEN [st EXCEPT !.raised = "CompileFailed: single-file patch mismatch"]
       ELSE st

\* The source roots this side does not read hold nothing in the model.
PatchInit ==
    /\ patch_name \in PatchNames
    /\ patchset \in UNION {[1..n -> [source : RawPaths, target : RawPaths]] :
                              n \in 1..MaxItems}
    /\ patch_side \in {CLIENT, SERVER, FORGE}
    /\ mcp_files \in [{"src/minecraft", "src/minecraft_server"} -> SUBSET Paths]
    /\ \A root \in DOMAIN mcp_files :
         (\A k \in 1..Len(source_roots(patch_side)) :
             source_roots(patch_side)[k] # root) => mcp_files[root] = {}
    /\ staging \in {[dirs |-> {""}, files |-> {}],
                    [dirs |-> {"", "net"}, files |-> {"net/C.java"}]}
    /\ copies = <<>>
    /\ tried = <<>>
    /\ resolved = <<>>
    /\ patch_warnings = <<>>
    /\ applied = FALSE
    /\ patch_pc = "parse"
    /\ patch_raised = ""

\* patchset = build_patch(patch_file); a malformed patch is CompileFailed.
PatchParse ==
    /\ patch_pc = "parse"
    /\ \E parsed \in BOOLEAN :
         IF parsed
         THEN patch_pc' = "items" /\ UNCHANGED patch_raised
         ELSE patch_pc' = "raised" /\ patch_raised' = "CompileFailed: malformed patch"
    /\ UNCHANGED <<patch_name, patchset, patch_side, mcp_files, staging,
                   copies, tried, resolved, patch_warnings, applied>>

\* One edit script of the patch document.
PatchItem ==
    /\ patch_pc = "items"
    /\ Len(resolved) < Len(patchset)
    /\ LET st == resolve(patchset[Len(resolved) + 1],
                         target_file(patch_name), patch_side)
       IN /\ staging' = [dirs |-> st.dirs, files |-> st.files]
          /\ copies' = st.copies
          /\ tried' = Append(tried, [found |-> st.found, copied |-> st.copied])
          /\ patch_warnings' = st.warned
          /\ resolved' = Append(resolved, st.patch_target)
          /\ patch_raised' = st.raised
          /\ patch_pc' = IF st.raised # "" THEN "raised" ELSE "items"
    /\ UNCHANGED <<patch_name, patchset, patch_side, mcp_files, applied>>

\* if not patchset.apply(root=output_root): raise CompileFailed
PatchApply ==
    /\ patch_pc = "items"
    /\ Len(resolved) = Len(patchset)
    /\ applied' = TRUE
    /\ \E ok \in BOOLEAN :
         IF ok
         THEN patch_pc' = "done" /\ UNCHANGED patch_raised
         ELSE patch_pc' = "raised" /\ patch_raised' = "CompileFailed: patch failed to apply"
    /\ UNCHANGED <<patch_name, patchset, patch_side, mcp_files, staging,
                   copies, tried, resolved, patch_warnings>>

PatchNext ==
    \/ PatchParse
         /\ UNCHANGED <<buildVars, discVars, pkgVars, renderVars, cwd, stageVars, outVars>>
    \/ PatchItem
         /\ UNCHANGED <<buildVars, discVars, pkgVars, renderVars, cwd, stageVars, outVars>>
    \/ PatchApply
         /\ UNCHANGED <<buildVars, discVars, pkgVars, renderVars, cwd, stageVars, outVars>>

\* The state when apply_patch(patch_file, output_root, side) is called.
InitPatch ==
    PatchInit /\ BuildIdle /\ DiscIdle /\ PkgIdle /\ RenderIdle
      /\ StageIdle /\ OutIdle

\* Project.apply_patch(patch_file, output_root, side)
SpecPatch == InitPatch /\ [][PatchNext]_vars

(***************************************************************************)
(* Properties of patch resolution.                                         *)
(***************************************************************************)
\* C8 (as claimed): a patch document whose name gives a hinted target and
\* whose edit script resolves to another path fails with the mismatch
\* failure, and no file has then been copied into the staging tree for it.
C8_MismatchStagesNothing ==
    /\ (patch_raised = "CompileFailed: single-file patch mismatch"
          => copies = <<>>)
    /\ \A k \in 1..Len(resolved) :
         (target_file(patch_name) # "None" /\ resolved[k] # "None"
            /\ resolved[k] # target_file(patch_name))
         => patch_raised = "CompileFailed: single-file patch mismatch"

(***************************************************************************)
(* Token rendering: CONF_TOKEN, Project.get_config, Project.replace_conf.  *)
(* A text is a sequence of atoms: "%", "conf:" (those five characters),    *)
(* " " (white space) and atoms that stand for runs of other characters.    *)
(***************************************************************************)
\* The atoms of the texts rendered.
TextAtoms == {"%", "conf:", "K", "PROJECT_NAME"}

\* The texts of at most n atoms.
Texts(n) == UNION {[1..k -> TextAtoms] : k \in 0..n}

\* The raw contents a file of conf/ may have.
RawValues == {<<"v">>, <<" ", "v", " ">>, <<" ">>, <<"%", "conf:", "K", "%">>}

\* os.path.basename(directory)
basename == <<"Foo">>

RECURSIVE lstrip(_)
\* Leading white space removed.
lstrip(text) ==
    IF text # <<>> /\ Head(text) = " " THEN lstrip(Tail(text)) ELSE text

RECURSIVE rstrip(_)
\* Trailing white space removed.
rstrip(text) ==
    IF text # <<>> /\ text[Len(text)] = " "
    THEN rstrip(SubSeq(text, 1, Len(text) - 1))
    ELSE text

\* str.strip()
strip(text) == rstrip(lstrip(text))

\* get_config with the contents returned as they were read.
get_config_Unstripped(setting, default) ==
    IF setting \in DOMAIN conf_dir THEN <<conf_dir[setting]>> ELSE default

\* get_config(setting, default), data_type str: the stripped contents of
\* conf/<setting> when that is a file, else default. A value is a
\* one-element sequence; None is the empty sequence.
get_config(setting, default) ==
    IF setting \in DOMAIN conf_dir THEN <<strip(conf_dir[setting])>> ELSE default

\* self.name = self.get_config("PROJECT_NAME", os.path.basename(directory))
project_name == get_config(<<"PROJECT_NAME">>, <<basename>>)[1]

RECURSIVE split(_)
\* CONF_TOKEN.split(text) for CONF_TOKEN = "%conf:([^%]*)%": the text
\* before the leftmost match, the match's group, and the split of the rest.
split(text) ==
    LET opens == {p \in 1..Len(text) :
                    /\ text[p] = "%"
                    /\ p + 1 <= Len(text)
                    /\ text[p + 1] = "conf:"
                    /\ \E q \in (p + 2)..Len(text) : text[q] = "%"}
    IN IF opens = {} THEN <<text>>
       ELSE LET p == CHOOSE x \in opens : \A y \in opens : x <= y
                q == CHOOSE x \in (p + 2)..Len(text) :
                        /\ text[x] = "%"
                        /\ \A y \in (p + 2)..(x - 1) : text[y] # "%"
            IN <<SubSeq(text, 1, p - 1), SubSeq(text, p + 2, q - 1)>>
                 \o split(SubSeq(text, q + 1, Len(text)))

RECURSIVE substitute(_, _)
\* for index, token in enumerate(split): the even entries are written as
\* they are, the odd ones replaced by get_config(token), by self.name for
\* PROJECT_NAME, or CompileFailed("No conf token '%s'" % token) is raised.
substitute(parts, out) ==
    IF parts = <<>> THEN [raised |-> "", out |-> out]
    ELSE IF Len(parts) = 1 THEN [raised |-> "", out |-> out \o parts[1]]
    ELSE LET token == parts[2]
             replacement == get_config(token, <<>>)
         IN IF replacement # <<>>
            THEN substitute(Tail(Tail(parts)), out \o parts[1] \o replacement[1])
            ELSE IF token = <<"PROJECT_NAME">>
            THEN substitute(Tail(Tail(parts)), out \o parts[1] \o project_name)
            ELSE [raised |-> "CompileFailed", token |-> token]

\* A rendering that copies the text and looks for no token.
render_Verbatim(text) == [raised |-> "", out |-> text]

\* One text rendered: CONF_TOKEN.split, then the substitution loop.
render(text) == substitute(split(text), <<>>)

\* Project.replace_conf: the shortened file name is rendered first, then
\* the contents.
replace_conf(file, text) ==
    LET output_name == render(file)
    IN IF output_name.raised # ""
       THEN [status |-> "raised", raised |-> output_name.raised,
             token |-> output_name.token]
       ELSE LET written == render(text)
            IN IF written.raised # ""
               THEN [status |-> "raised", raised |-> written.raised,
                     token |-> written.token]
               ELSE [status |-> "returned", output_name |-> output_name.out,
                     contents |-> written.out]

\* The keys conf/ may hold a file for.
ConfKeys == {<<"K">>, <<"PROJECT_NAME">>}

\* A file with a text for a name and no contents, or a file with a plain
\* name and a text for contents.
RenderInit ==
    /\ conf_dir \in UNION {[ks -> RawValues] : ks \in SUBSET ConfKeys}
    /\ \E text \in Texts(MaxText) :
         \/ filename = text /\ contents = <<>>
         \/ filename = <<"K">> /\ contents = text
    /\ rendered = [status |-> "called"]

\* self.replace_conf(filename)
ReplaceConf ==
    /\ rendered.status = "called"
    /\ rendered' = replace_conf(filename, contents)
    /\ UNCHANGED <<conf_dir, filename, contents>>

RenderNext ==
    \/ ReplaceConf
         /\ UNCHANGED <<buildVars, discVars, pkgVars, patchVars, cwd, stageVars, outVars>>

\* The state when replace_conf is called.
InitRender ==
    RenderInit /\ BuildIdle /\ DiscIdle /\ PkgIdle /\ PatchIdle
      /\ StageIdle /\ OutIdle

\* Project.replace_conf(filename, output_root)
SpecRender == InitRender /\ [][RenderNext]_vars

(***************************************************************************)
(* Properties of the build run.                                            *)
(***************************************************************************)
\* The sides of the run, as a set.
SideSet == {sides[k] : k \in 1..Len(sides)}

\* The API-only units the run order holds: one per side for each project
\* whose conf/API lists a pattern.
ApiUnitsDeclared ==
    {Unit("api", i, s) : i \in {j \in 1..Len(projects) : projects[j].api},
                         s \in SideSet}

\* The command line's project-name filters, sys.argv[1:].
Filters == {argv[k] : k \in 2..Len(argv)}

\* The full units the run order holds: one per side for each project the
\* filters leave in.
MainUnitsDeclared ==
    {Unit("main", i, s) :
        i \in {j \in 1..Len(projects) :
                 Filters = {} \/ projects[j].name \in Filters},
        s \in SideSet}

RECURSIVE Entries(_, _)
\* The number of entries of a diagnostics dictionary over the keys ks.
Entries(dict, ks) ==
    IF ks = {} THEN 0
    ELSE LET k == CHOOSE x \in ks : TRUE
         IN Len(dict[k]) + Entries(dict, ks \ {k})

\* The number of error diagnostics recorded.
TotalErrors == Entries(errors, DOMAIN errors)

\* The number of warning diagnostics recorded.
TotalWarnings == Entries(warnings, DOMAIN warnings)

\* C1 (as claimed): a failure in any stage of any unit, API-only or full,
\* aborts only that unit: when the process has ended, it ended through the
\* final report and every unit of the run order was started.
C1_SiblingContinuation ==
    phase \in {"exited", "crashed"} =>
        /\ phase = "exited"
        /\ ApiUnitsDeclared \cup MainUnitsDeclared \subseteq started

\* C2 (as claimed): after the final report the exit code is the number of
\* error diagnostics recorded, one per failed (project, variant) unit.
C2_ExitCodeCountsErrors ==
    phase = "exited" => exit_code = TotalErrors

C4_PhaseOrdering ==
    /\ {u \in started : u.phase = "api"} \subseteq ApiUnitsDeclared
    /\ (\E u \in started : u.phase = "main") => ApiUnitsDeclared \subseteq finished
    /\ \A e \in ran : e.phase = "api" => e.stage \in {"stage", "compile"}

\* C4 witness: a full unit has begun in a run that holds two API-only units
\* and a project with no API pattern.
C4_Witness ==
    /\ \E u \in started : u.phase = "main"
    /\ \E u, v \in ApiUnitsDeclared : u # v
    /\ \E i \in 1..Len(projects) : ~projects[i].api

Percents(text) == {p \in 1..Len(text) : text[p] = "%"}

\* How many percent signs a text has up to position p.
Rank(text, p) == Cardinality({x \in Percents(text) : x <= p})

\* The percent signs of the text pair up into token markers: the first of
\* each pair is followed by "conf:", the second closes the marker.
WellFormed(text) ==
    /\ Cardinality(Percents(text)) % 2 = 0
    /\ \A p \in Percents(text) :
         Rank(text, p) % 2 = 1 => p + 1 <= Len(text) /\ text[p + 1] = "conf:"

\* The token markers of a well-formed text: where each opens and its key.
Markers(text) ==
    {[at |-> p,
      key |-> SubSeq(text, p + 2,
                     (CHOOSE q \in Percents(text) :
                         Rank(text, q) = Rank(text, p) + 1) - 1)] :
        p \in {x \in Percents(text) : Rank(text, x) % 2 = 1}}

\* The markers whose key has no file in conf/ and is not PROJECT_NAME.
Unknown(text) ==
    {m \in Markers(text) :
        m.key \notin DOMAIN conf_dir /\ m.key # <<"PROJECT_NAME">>}

\* The key of the first marker of a set.
FirstKey(markers) ==
    (CHOOSE m \in markers : \A o \in markers : m.at <= o.at).key

RECURSIVE Replaced(_, _, _)
\* A well-formed text with each of its markers replaced by a value.
Replaced(text, value, inside) ==
    IF text = <<>> THEN <<>>
    ELSE IF Head(text) = "%"
    THEN (IF inside THEN value ELSE <<>>) \o Replaced(Tail(text), value, ~inside)
    ELSE (IF inside THEN <<>> ELSE <<Head(text)>>)
           \o Replaced(Tail(text), value, inside)

\* The text has a marker, and every marker's key is PROJECT_NAME.
OnlyProjectName(text) ==
    /\ Markers(text) # {}
    /\ \A m \in Markers(text) : m.key = <<"PROJECT_NAME">>

\* C9: when a rendered file name or contents hold a token whose key has no
\* file in conf/ and is not PROJECT_NAME, replace_conf raises CompileFailed
\* naming the first such key (the file name's before the contents'); a
\* failure always names such a key; and a text whose only tokens are
\* PROJECT_NAME is rendered, with the project's name in place of each.
C9_UnknownTokenFails ==
    (rendered.status \in {"returned", "raised"}
        /\ WellFormed(filename) /\ WellFormed(contents)) =>
      /\ Unknown(filename) # {} =>
            /\ rendered.status = "raised"
            /\ rendered.raised = "CompileFailed"
            /\ rendered.token = FirstKey(Unknown(filename))
      /\ (Unknown(filename) = {} /\ Unknown(contents) # {}) =>
            /\ rendered.status = "raised"
            /\ rendered.raised = "CompileFailed"
            /\ rendered.token = FirstKey(Unknown(contents))
      /\ (Unknown(filename) = {} /\ Unknown(contents) = {}) =>
            rendered.status = "returned"
      /\ OnlyProjectName(filename) =>
            /\ rendered.status = "returned"
            /\ rendered.output_name = Replaced(filename, project_name, FALSE)
      /\ OnlyProjectName(contents) =>
            /\ rendered.status = "returned"
            /\ rendered.contents = Replaced(contents, project_name, FALSE)

\* The contents are a token of the key K, which has no file in conf/: the
\* rendering failed naming K.
C9_Witness ==
    /\ contents = <<"%", "conf:", "K", "%">>
    /\ <<"K">> \notin DOMAIN conf_dir
    /\ rendered.status = "raised"
    /\ rendered.raised = "CompileFailed"
    /\ rendered.token = <<"K">>

\* No "%conf:" of the text is followed by a later percent sign.
NoMarker(text) ==
    ~ \E p \in 1..Len(text) : \E q \in (p + 2)..Len(text) :
        text[p] = "%" /\ text[p + 1] = "conf:" /\ text[q] = "%"

\* The marker of a key.
Marker(key) == <<"%", "conf:">> \o key \o <<"%">>

\* out is raw without its leading and trailing white space.
IsTrimOf(out, raw) ==
    \E i \in 1..(Len(raw) + 1) : \E j \in 0..Len(raw) :
        /\ out = SubSeq(raw, i, j)
        /\ \A x \in 1..(i - 1) : raw[x] = " "
        /\ \A x \in (j + 1)..Len(raw) : raw[x] = " "
        /\ out # <<>> => out[1] # " " /\ out[Len(out)] # " "

\* C10: a file name and contents without a token marker are rendered
\* unchanged, and rendering the result again changes nothing; a text that
\* is exactly the marker of a key with a file in conf/ is rendered as that
\* file's contents without their leading and trailing white space.
C10_RenderingLeavesPlainText ==
    rendered.status \in {"returned", "raised"} =>
      /\ (NoMarker(filename) /\ NoMarker(contents)) =>
            /\ rendered = [status |-> "returned", output_name |-> filename,
                            contents |-> contents]
            /\ replace_conf(rendered.output_name, rendered.contents) = rendered
      /\ \A key \in DOMAIN conf_dir :
            /\ contents = Marker(key) =>
                  /\ rendered.status = "returned"
                  /\ IsTrimOf(rendered.contents, conf_dir[key])
            /\ filename = Marker(key) =>
                  /\ rendered.status = "returned"
                  /\ IsTrimOf(rendered.output_name, conf_dir[key])

\* The contents are exactly the marker of K, whose file holds a value
\* between white space: the rendering is the value alone.
C10_Witness ==
    /\ contents = Marker(<<"K">>)
    /\ <<"K">> \in DOMAIN conf_dir
    /\ conf_dir[<<"K">>] = <<" ", "v", " ">>
    /\ rendered.status = "returned"
    /\ rendered.contents = <<"v">>

(***************************************************************************)
(* Properties of one unit of the build run.                                *)
(***************************************************************************)
\* The dependencies of a project that name a project of the registry.
FoundDeps(deps) ==
    SelectSeq(deps, LAMBDA d : \E i \in 1..Len(projects) : projects[i].name = d)

\* The entries of errors for a (project, side) pair.
ErrorsOf(p, s) ==
    IF p \in DOMAIN errors
    THEN {k \in 1..Len(errors[p]) : errors[p][k].side = s}
    ELSE {}

\* Whether warnings holds the missing-dependency warning of a unit for a name.
WarnedMissing(p, s, dep) ==
    /\ p \in DOMAIN warnings
    /\ \E k \in 1..Len(warnings[p]) :
         warnings[p][k] = [side |-> s,
                           message |-> [kind |-> "missing_dependency",
                                        name |-> dep]]

\* C11: a dependency that names no project of the registry is a warning
\* naming it and no error. The compiler is still invoked, its source path
\* is the staging directory followed by the source directories of the
\* dependencies found, in declared order; and a unit whose every stage
\* succeeded has no entry in errors, so that a run of such units exits 0.
C11_MissingDependencyWarns ==
    /\ javac.unit.phase # "none" =>
         LET u     == javac.unit
             deps  == projects[u.project].dependencies
             present == FoundDeps(deps)
             sp    == javac.command.sourcepath
             n     == IF u.side = FORGE THEN 1 ELSE 2
         IN /\ Len(sp) = 1 + n * Len(present)
            /\ sp[1] = [project |-> 0, dir |-> compile_temp]
            /\ \A j \in 1..Len(present) :
                 LET owner == CHOOSE i \in 1..Len(projects) :
                                 projects[i].name = present[j]
                 IN /\ sp[n * (j - 1) + 2] =
                         [project |-> owner, dir |-> "src/common"]
                    /\ n = 2 =>
                         sp[n * (j - 1) + 3] =
                           [project |-> owner,
                            dir |-> IF u.side = CLIENT THEN "src/client"
                                    ELSE "src/server"]
            /\ \A k \in 1..Len(deps) :
                 (\A i \in 1..Len(projects) : projects[i].name # deps[k])
                   => WarnedMissing(u.project, u.side, deps[k])
    /\ (current.unit.phase # "none" /\ current.failed # "stage") =>
         /\ "compile" \in {current.stages[k] : k \in 1..Len(current.stages)}
         /\ javac.unit = current.unit
    /\ (current.unit.phase = "main" /\ current.failed = ""
          /\ current.unit \in finished) =>
         ErrorsOf(current.unit.project, current.unit.side) = {}
    /\ (phase = "exited" /\ errors = <<>>) => exit_code = 0

\* C11 witness: the run has exited with status 0 and no error; the last
\* compile was of a project with a missing and a found dependency, which
\* left the warning and a source path of more than the staging directory.
C11_Witness ==
    /\ phase = "exited"
    /\ exit_code = 0
    /\ errors = <<>>
    /\ javac.unit.phase = "main"
    /\ projects[javac.unit.project].dependencies = <<"Bar", "Missing", "Foo">>
    /\ WarnedMissing(javac.unit.project, javac.unit.side, "Missing")
    /\ Len(javac.command.sourcepath) > 1
    /\ Len(javac.command.sourcepath) <
         1 + 2 * Len(projects[javac.unit.project].dependencies)

\* The stages of a unit of the main loop, in the order of the loop's body.
StageOrder == <<"stage", "compile", "package", "obfuscate">>

\* How often a stage occurs in the stages last run.
TimesRun(stage) ==
    Cardinality({k \in 1..Len(current.stages) : current.stages[k] = stage})

\* C12: the stages of a unit of the main loop run in the order stage,
\* compile, package, obfuscate, each after the one before it succeeded; a
\* failed stage is the unit's last, and the unit then has exactly one entry
\* in errors, under its project and with its side; a unit without a failed
\* stage has none.
C12_StagesInOrder ==
    /\ [](current.unit.phase = "main" =>
            /\ Len(current.stages) <= Len(StageOrder)
            /\ \A k \in 1..Len(current.stages) : current.stages[k] = StageOrder[k]
            /\ current.failed # "" =>
                 /\ current.stages[Len(current.stages)] = current.failed
                 /\ current.unit \in finished
                 /\ Cardinality(ErrorsOf(current.unit.project,
                                         current.unit.side)) = 1
            /\ current.failed = "" =>
                 ErrorsOf(current.unit.project, current.unit.side) = {})
    /\ [][(current.unit.phase = "main" /\ current'.unit = current.unit
              /\ current' # current) =>
            /\ current.failed = ""
            /\ current.unit \notin finished
            /\ Len(current'.stages) = Len(current.stages) + 1]_vars

\* C12 witness: a unit staged and compiled, failed in package, ran nothing
\* after it and left one error.
C12_Witness ==
    /\ current.unit.phase = "main"
    /\ current.stages = <<"stage", "compile", "package">>
    /\ current.failed = "package"
    /\ current.unit \in finished
    /\ Cardinality(ErrorsOf(current.unit.project, current.unit.side)) = 1

\* C13: obfuscate runs for a unit only after package returned created =
\* True, and once; a unit that is finished ran obfuscate if package returned
\* True, and ran no obfuscate and has no entry in errors if package
\* returned False.
C13_ObfuscateIffCreated ==
    current.unit.phase = "main" =>
      /\ TimesRun("obfuscate") <= 1
      /\ TimesRun("obfuscate") = 1 => current.created
      /\ step = "obfuscate" <=>
           (current.created /\ TimesRun("obfuscate") = 0)
      /\ (current.unit \in finished /\ TimesRun("package") = 1
            /\ current.failed # "package") =>
           /\ current.created => TimesRun("obfuscate") = 1
           /\ ~current.created =>
                /\ TimesRun("obfuscate") = 0
                /\ ErrorsOf(current.unit.project, current.unit.side) = {}

\* C13 witness: a finished unit whose package created an archive and whose
\* obfuscate ran once and succeeded.
C13_Witness ==
    /\ current.unit.phase = "main"
    /\ current.unit \in finished
    /\ current.created
    /\ current.stages = StageOrder
    /\ current.failed = ""

\* C17: when the compiler is invoked for a unit, compile_temp holds only
\* files that unit staged, whatever units ran before it; and at any time
\* the directory holds only files of the unit that cleaned it last.
C17_StagingHoldsOwnFiles ==
    /\ javac.unit.phase # "none" => javac.staged = {javac.unit}
    /\ temp_files \subseteq {current.unit}

\* C17 witness: the compiler was invoked for a unit of the main loop after
\* an API-only unit and a failed unit of the main loop had staged files.
C17_Witness ==
    /\ javac.unit.phase = "main"
    /\ javac.staged = {javac.unit}
    /\ \E u \in finished : u.phase = "api"
    /\ \E u \in finished :
         /\ u.phase = "main"
         /\ u # javac.unit
         /\ ErrorsOf(u.project, u.side) # {}

\* C19 (as claimed): whenever the unit begun last has finished, at whatever
\* stage, the process working directory is BASE.
C19_CwdIsBaseAfterUnit ==
    current.unit \in finished => cwd = "BASE"

\* The entries of a classpath.
EntriesOf(path) == {path[k] : k \in 1..Len(path)}

\* C20: the classpath of an API-only compile is MCP's bin directory and the
\* host libraries, without api_dir; the classpath of a compile of the main
\* loop is MCP's bin directory, the host libraries, then api_dir;
\* library_classpath is the host libraries during the API phase and gains
\* api_dir in one step, taken when every API-only unit is finished, and no
\* step of the main loop changes it.
C20_ClasspathWrittenOnce ==
    /\ [](javac.unit.phase = "api" =>
            /\ api_dir \notin EntriesOf(javac.command.classpath)
            /\ Tail(javac.command.classpath) = libraries)
    /\ [](javac.unit.phase = "main" =>
            Tail(javac.command.classpath) = libraries \o <<api_dir>>)
    /\ [](phase \in {"api", "crashed"} => library_classpath = libraries)
    /\ [](phase \in {"main", "exited"} =>
            library_classpath = libraries \o <<api_dir>>)
    /\ [][library_classpath' # library_classpath =>
            /\ phase = "api" /\ phase' = "main"
            /\ ApiUnitsDeclared \subseteq finished
            /\ library_classpath' = Append(library_classpath, api_dir)]_vars

\* C20 witness: a compile of the main loop ran after an API-only unit had
\* finished, with api_dir last on its classpath.
C20_Witness ==
    /\ javac.unit.phase = "main"
    /\ \E u \in finished : u.phase = "api"
    /\ javac.command.classpath = <<MCP_BIN_SERVER>> \o libraries \o <<api_dir>>

(***************************************************************************)
(* Properties of patch resolution, continued.                              *)
(***************************************************************************)
\* The candidate roots of the side that hold a path, in candidate order.
RootsHolding(path) ==
    SelectSeq(source_roots(patch_side), LAMBDA root : path \in mcp_files[root])

\* The edit script of index k was left without an exception.
ItemCompleted(k) ==
    \/ k < Len(tried)
    \/ patch_raised \in {"", "CompileFailed: patch failed to apply"}

\* C14 (as claimed): for every edit script gone through, at most one
\* candidate root is used for the path (no later root once an earlier root
\* has the file), and an edit script that resolved has exactly one staged
\* copy, taken from the first candidate root that holds its path.
C14_FirstHitOnly ==
    \A k \in 1..Len(tried) :
        /\ Len(tried[k].found) <= 1
        /\ ItemCompleted(k) =>
             tried[k].copied = <<[root |-> Head(RootsHolding(resolved[k])),
                                  path |-> resolved[k]]>>

\* No path an edit script may resolve to exists under a candidate root: its
\* source, its target and the hinted target, normalised.
Unresolvable(k) ==
    \A path \in ({normpath(patchset[k].source), normpath(patchset[k].target),
                  target_file(patch_name)} \ {"None"}) :
        RootsHolding(path) = <<>>

\* C15 (as claimed): the edits are applied only when every edit script has
\* resolved and has its staged copy; and a multi-file patch document that
\* parsed and has an edit script unresolvable under all candidate roots
\* ends in the expected failure, with no edit applied.
C15_AllResolveBeforeApply ==
    /\ applied =>
         /\ Len(resolved) = Len(patchset)
         /\ \A k \in 1..Len(resolved) :
              resolved[k] # "None" /\ resolved[k] \in staging.files
    /\ (/\ target_file(patch_name) = "None"
        /\ patch_pc \in {"done", "raised"}
        /\ patch_raised # "CompileFailed: malformed patch"
        /\ \E k \in 1..Len(patchset) : Unresolvable(k)) =>
         /\ patch_raised = "CompileFailed: no file to patch"
         /\ ~applied

(***************************************************************************)
(* Staging: the first part of Project.compile, with Project.is_api.        *)
(***************************************************************************)
\* The shortened names of the .java files a project may hold.
ShortNames == {"api/I.java", "impl/X.java", "Util.java"}

\* The files of MCP's sources the patch documents of a project may patch,
\* relative to the source root and so to temp_dir.
PatchTargets == {"net/B.java", "api/I.java"}

\* The patterns conf/API may list.
Patterns == {"api/*", "*/X.java", "net/*"}

\* fnmatch.fnmatch(name, pattern); "*" matches any run of characters.
fnmatch(short_filename, entry) ==
    CASE entry = "api/*"    -> short_filename = "api/I.java"
      [] entry = "*/X.java" -> short_filename = "impl/X.java"
      [] entry = "net/*"    -> short_filename = "net/B.java"
      [] OTHER              -> FALSE

\* Project.is_api: some entry of self.api matches the shortened name.
is_api(short_filename) ==
    \E entry \in api_patterns : fnmatch(short_filename, entry)

StageInit ==
    /\ stage_api \in BOOLEAN
    /\ api_patterns \in SUBSET Patterns
    /\ stage_api => api_patterns # {}
    /\ java_files \in SUBSET ShortNames
    /\ patch_files \in SUBSET PatchTargets
    /\ staged = {}
    /\ compiler_files = {}
    /\ stage_pc = "sources"

\* if api: source_files = filter(self.is_api, source_files); then
\* source_files = map(replace_conf(f, temp_dir), source_files). A
\* CompileFailed of replace_conf ends compile with part of the files staged.
StageSources ==
    /\ stage_pc = "sources"
    /\ LET source_files == IF stage_api
                           THEN {f \in java_files : is_api(f)}
                           ELSE java_files
       IN \/ /\ staged' = source_files
             /\ compiler_files' = source_files
             /\ stage_pc' = "patches"
          \/ /\ \E done \in SUBSET source_files :
                  done # source_files /\ staged' = done
             /\ stage_pc' = "raised"
             /\ UNCHANGED compiler_files
    /\ UNCHANGED <<stage_api, api_patterns, java_files, patch_files>>

\* for patch in patch_files: for patched_file in self.apply_patch(patch,
\* temp_dir, side): source_files.append(patched_file). apply_patch copies
\* the file it patches into temp_dir, and may raise after the copy.
StagePatch ==
    /\ stage_pc = "patches"
    /\ \E patch \in patch_files :
         /\ patch_files' = patch_files \ {patch}
         /\ \/ /\ staged' = staged \cup {patch}
               /\ compiler_files' = compiler_files \cup {patch}
               /\ UNCHANGED stage_pc
            \/ /\ staged' \in {staged, staged \cup {patch}}
               /\ stage_pc' = "raised"
               /\ UNCHANGED compiler_files
    /\ UNCHANGED <<stage_api, api_patterns, java_files>>

\* self.call_or_die(command + list(source_files), CompileFailed)
StageJavac ==
    /\ stage_pc = "patches"
    /\ patch_files = {}
    /\ stage_pc' = "javac"
    /\ UNCHANGED <<stage_api, api_patterns, java_files, patch_files, staged,
                   compiler_files>>

StageNext ==
    \/ StageSources
         /\ UNCHANGED <<buildVars, discVars, pkgVars, patchVars, renderVars, cwd, outVars>>
    \/ StagePatch
         /\ UNCHANGED <<buildVars, discVars, pkgVars, patchVars, renderVars, cwd, outVars>>
    \/ StageJavac
         /\ UNCHANGED <<buildVars, discVars, pkgVars, patchVars, renderVars, cwd, outVars>>

\* The state when compile has cleaned temp_dir and collected the files.
InitStage ==
    StageInit /\ BuildIdle /\ DiscIdle /\ PkgIdle /\ PatchIdle /\ RenderIdle
      /\ OutIdle

\* Project.compile up to the compiler command.
SpecStage == InitStage /\ [][StageNext]_vars

\* C16 (as claimed): in an API-only pass every file in the staging
\* directory and every file given to the compiler matches an API pattern of
\* the project, the files patch documents bring in included.
C16_ApiOnlyStagesApiFiles ==
    stage_api => \A f \in staged \cup compiler_files : is_api(f)

(***************************************************************************)
(* The names of the outputs: Project.__init__, Project.get_package_file    *)
(* and the main loop's compile_dir. A name is the sequence of its parts.   *)
(***************************************************************************)
\* The categories below USER and the directory names of projects in them.
Categories == {"a", "b"}
Basenames == {<<"Foo">>, <<"Bar">>, <<"Foo", "_server">>, <<"lib">>}

\* What conf/PROJECT_NAME and conf/PACKAGE_NAME may hold; <<>> is no file.
ProjectNameFiles == {<<>>, <<<<"Foo">>>>}
PackageNameFiles == {<<>>, <<<<"Foo", "-", "alpha", "-server">>>>}

\* Project.__init__: name, version, package_name and extension of a
\* project directory, from its conf/ files or their defaults.
Project(directory) ==
    LET project_name_of == IF directory.conf_project_name # <<>>
                           THEN directory.conf_project_name[1]
                           ELSE directory.basename
        version == <<"alpha">>
    IN [dir          |-> <<directory.category, directory.basename>>,
        name         |-> project_name_of,
        version      |-> version,
        package_name |-> IF directory.conf_package_name # <<>>
                         THEN directory.conf_package_name[1]
                         ELSE project_name_of \o <<"-">> \o version,
        extension    |-> <<"zip">>]

\* Project.get_package_file(side)
get_package_file(project, side) ==
    join(TEMP, project.package_name
               \o (IF side = SERVER THEN <<"-server">>
                   ELSE IF side = FORGE THEN <<"-universal">> ELSE <<>>)
               \o <<".">> \o project.extension)

\* The project directories collect_projects may find.
Directories ==
    [category : Categories, basename : Basenames,
     conf_project_name : ProjectNameFiles,
     conf_package_name : PackageNameFiles]

\* Two projects in two different directories, and the sides of the run.
OutInit ==
    /\ out_projects \in {<<Project(d), Project(o)>> :
                           d \in Directories, o \in Directories}
    /\ out_projects[1].dir # out_projects[2].dir
    /\ out_sides \in {<<FORGE>>, <<CLIENT, SERVER>>}
    /\ outputs = {}

\* The main loop over the projects and sides: the compile_dir it cleans and
\* compiles into, and the archive package writes.
NameOutputs ==
    /\ outputs = {}
    /\ outputs' = {[unit        |-> <<i, out_sides[k]>>,
                    package     |-> get_package_file(out_projects[i], out_sides[k]),
                    compile_dir |-> compile_dir(out_projects[i].name, out_sides[k])] :
                     i \in 1..Len(out_projects), k \in 1..Len(out_sides)}
    /\ UNCHANGED <<out_projects, out_sides>>

OutNext ==
    \/ NameOutputs
         /\ UNCHANGED <<buildVars, discVars, pkgVars, patchVars, renderVars, cwd, stageVars>>

\* The state before the main loop.
InitOutputs ==
    OutInit /\ BuildIdle /\ DiscIdle /\ PkgIdle /\ PatchIdle /\ RenderIdle
      /\ StageIdle

\* The output names of the units of one run.
SpecOutputs == InitOutputs /\ [][OutNext]_vars

\* C18 (as claimed): two different units of a run have different package
\* files and different compile directories, and no compile directory is
\* the API output directory or the staging directory.
C18_OutputsAreUnique ==
    \A a \in outputs :
        /\ \A b \in outputs :
             a.unit # b.unit =>
               a.package # b.package /\ a.compile_dir # b.compile_dir
        /\ a.compile_dir # join(TEMP, <<"lib">>)
        /\ a.compile_dir # join(TEMP, <<"compile_temp">>)


(***************************************************************************)
(* Properties of the archive's order and of hidden sources.                *)
(***************************************************************************)
\* The place of a group in the claimed order: common source, variant source,
\* compiled output, common resources, variant resources.
GroupRank(group) ==
    CASE group = "common_source" -> 1
      [] group = "source" -> 2
      [] group = "classes" -> 3
      [] group = "common_resources" -> 4
      [] group = "resources" -> 5

\* No entry of a later group precedes an entry of an earlier group.
InGroupOrder ==
    \A i, j \in 1..Len(archive) :
        i < j => GroupRank(archive[i]) <= GroupRank(archive[j])

\* With hide_source the archive holds no entry of either source tree.
SourcesHidden ==
    layout.hide_source =>
        \A i \in 1..Len(archive) : archive[i] \notin {"common_source", "source"}

\* When package has returned, the compiled output and the resources that hold
\* a file are in the archive, whether or not hide_source is set.
OthersAdded ==
    pkg_pc = "done" =>
        /\ layout.classes = "files" => \E i \in 1..Len(archive) : archive[i] = "classes"
        /\ layout.common_resources = "files"
             => \E i \in 1..Len(archive) : archive[i] = "common_resources"
        /\ (layout.resources = "files" /\ pkg_side # FORGE)
             => \E i \in 1..Len(archive) : archive[i] = "resources"

\* The archive only grows at its end.
ArchiveAppended ==
    /\ Len(archive') >= Len(archive)
    /\ SubSeq(archive', 1, Len(archive)) = archive

\* C21: archive entries are appended in the order common source, variant
\* source, compiled output, common resources, variant resources: entries are
\* only added at the end and no entry of a later group precedes one of an
\* earlier group; with hide_source set the archive holds no entry of either
\* source tree, while compiled output and resources are still added.
C21_GroupOrderAndHiddenSources ==
    /\ [](InGroupOrder /\ SourcesHidden /\ OthersAdded)
    /\ [][ArchiveAppended]_vars

\* C21 witness: package has returned for a project that hides its sources and
\* has files in a source tree; the archive holds the compiled output and both
\* resource groups, in that order, and nothing else.
C21_Witness ==
    /\ pkg_pc = "done"
    /\ layout.hide_source
    /\ layout.common_source = "files"
    /\ layout.source = "files"
    /\ pkg_side # FORGE
    /\ archive = <<"classes", "common_resources", "resources">>


(***************************************************************************)
(* Properties of discovery's classification.                               *)
(***************************************************************************)
\* The marker files of a directory.
HasDisabledMarker(d) == dirs[d].kind.files \cap {"DISABLE", "DISABLED"} # {}
HasCategoryMarker(d) == "CATEGORY" \in dirs[d].kind.files

\* No directory below d has been visited or constructed as a Project.
SubtreeSkipped(d) ==
    \A c \in DOMAIN dirs : Below(c, d) => c \notin visited \cup constructed

\* C22: a visited directory with a CATEGORY marker (and no disabled marker) is
\* never constructed as a Project, and when the walk is over its children
\* have been visited; a visited directory with neither marker is constructed
\* as a Project and nothing below it is visited or constructed; a directory
\* with a disabled marker, also one that has a CATEGORY marker too, is never
\* constructed and nothing below it is visited or constructed.
C22_DiscoveryClassification ==
    \A d \in DOMAIN dirs :
        /\ (HasCategoryMarker(d) /\ ~HasDisabledMarker(d))
             => /\ d \notin constructed
                /\ (d \in visited /\ walk = <<>>)
                     => \A c \in DOMAIN dirs : dirs[c].parent = d => c \in visited
        /\ (~HasCategoryMarker(d) /\ ~HasDisabledMarker(d))
             => /\ d \in visited => d \in constructed
                /\ SubtreeSkipped(d)
        /\ HasDisabledMarker(d)
             => /\ d \notin constructed
                /\ SubtreeSkipped(d)

\* C22 witness: the walk is over; it visited a category and a child of it,
\* constructed a project that has a subdirectory, and visited a directory
\* that has both a DISABLED and a CATEGORY marker.
C22_Witness ==
    /\ walk = <<>>
    /\ \E d \in visited :
         /\ HasCategoryMarker(d) /\ ~HasDisabledMarker(d)
         /\ \E c \in visited : dirs[c].parent = d
    /\ \E d \in constructed : \E c \in DOMAIN dirs : dirs[c].parent = d
    /\ \E d \in visited : HasCategoryMarker(d) /\ HasDisabledMarker(d)


(***************************************************************************)
(* Properties of the summary count.                                        *)
(***************************************************************************)
\* C23 (as claimed): count is the number of projects counted, and a project
\* is counted only if one of its units ran compile, package and obfuscate
\* without a failure; a project with an error recorded for every side is
\* never counted.
C23_CountedOnlyIfCompleted ==
    /\ count = Cardinality(counted)
    /\ counted \subseteq completed
    /\ \A p \in counted : \E s \in SideSet : ErrorsOf(p, s) = {}

====
